---- MODULE Spec2Model ----
(***************************************************************************)
(* Gaussian Naive Bayes estimator GNB of scikits/learn/naive_bayes.py.     *)
(*                                                                         *)
(* One estimator object clf with the methods fit, predict and              *)
(* predict_proba.  The fitted attributes (uniy, theta, sigma, proba_y) are *)
(* exact rationals <<numerator, denominator>>.  The log-likelihoods of     *)
(* predict_proba are fixed-point numbers with Scale units per 1.0,         *)
(* extended by the IEEE values inf and nan; np.exp yields 0 below          *)
(* -LogMinDouble and inf above LogMaxDouble, as a double does.  Rounding   *)
(* of the doubles below 1/Scale is not modelled.                           *)
(*                                                                         *)
(* X[y==yi,:] with a y whose length differs from the rows of X depends on  *)
(* the numpy release: strictMask chooses between the two behaviours.       *)
(***************************************************************************)
EXTENDS Integers, Sequences, FiniteSets

VARIABLES clf, call

vars == <<clf, call>>

(***************************************************************************)
(* Bounds of the generated inputs.                                         *)
(***************************************************************************)
MaxSamples == 2
MaxRows == 1

(***************************************************************************)
(* Sequence and set helpers.                                               *)
(***************************************************************************)
RECURSIVE SeqsUpTo(_, _)
SeqsUpTo(S, n) ==
    IF n = 0 THEN {<<>>}
    ELSE LET shorter == SeqsUpTo(S, n - 1)
         IN  shorter \cup {Append(s, e) : s \in {t \in shorter : Len(t) = n - 1}, e \in S}

Range(s) == {s[k] : k \in 1..Len(s)}

\* a function on 1..n as a sequence value
Vec(f) == f \o <<>>

Min(S) == CHOOSE m \in S : \A o \in S : m <= o

RECURSIVE SortedSeq(_)
SortedSeq(S) ==
    IF S = {} THEN <<>> ELSE <<Min(S)>> \o SortedSeq(S \ {Min(S)})

\* numpy.unique: the distinct values of y in ascending order
unique(y) == SortedSeq(Range(y))

(***************************************************************************)
(* Exact rational arithmetic: <<n, d>> with d > 0 in lowest terms.         *)
(***************************************************************************)
Abs(a) == IF a < 0 THEN -a ELSE a

RECURSIVE GCD(_, _)
GCD(a, b) == IF b = 0 THEN a ELSE GCD(b, a % b)

Rat(n, d) ==
    LET g == GCD(Abs(n), Abs(d))
        s == IF d < 0 THEN -1 ELSE 1
    IN  <<(s * n) \div g, (s * d) \div g>>

RInt(n) == <<n, 1>>
RAdd(a, b) == Rat(a[1] * b[2] + b[1] * a[2], a[2] * b[2])
RSub(a, b) == Rat(a[1] * b[2] - b[1] * a[2], a[2] * b[2])
RMul(a, b) == Rat(a[1] * b[1], a[2] * b[2])
RDiv(a, b) == Rat(a[1] * b[2], a[2] * b[1])
RLess(a, b) == a[1] * b[2] < b[1] * a[2]

RECURSIVE RSum(_)
RSum(s) == IF s = <<>> THEN RInt(0) ELSE RAdd(s[1], RSum(Tail(s)))

(***************************************************************************)
(* Matrices: [nf |-> number of columns, rows |-> sequence of rows].        *)
(***************************************************************************)
Matrix(nf, rows) == [nf |-> nf, rows |-> rows]

NRows(X) == Len(X.rows)

Column(rows, j) == Vec([k \in 1..Len(rows) |-> rows[k][j]])

(***************************************************************************)
(* fit, lines 53-66.                                                       *)
(***************************************************************************)
AttrNames == {"theta", "sigma", "proba_y", "uniy"}

\* a GNB() object before any fit: no attribute is set
NewGNB == [attrs |-> {}, uniy |-> <<>>, theta |-> <<>>, sigma |-> <<>>, proba_y |-> <<>>]

\* y==yi : the positions of y that hold yi
Mask(y, yi) == {k \in 1..Len(y) : y[k] = yi}

\* X[y==yi,:] raises IndexError: a numpy that checks the mask length raises on
\* every length mismatch, an older one only for a True position past the rows
MaskRaises(X, y, yi, strictMask) ==
    IF strictMask THEN Len(y) # NRows(X)
    ELSE \E k \in Mask(y, yi) : k > NRows(X)

\* X[y==yi,:] : the selected rows, in row order
Select(X, y, yi) ==
    LET idx == SortedSeq(Mask(y, yi))
    IN  Vec([k \in 1..Len(idx) |-> X.rows[idx[k]]])

\* np.mean(rows, 0)
mean(nf, rows) ==
    Vec([j \in 1..nf |-> RDiv(RSum(Column(rows, j)), RInt(Len(rows)))])

\* np.var(rows, 0): mean of the squared deviations from the mean, divisor = count
var(nf, rows) ==
    LET m == mean(nf, rows)
    IN  Vec([j \in 1..nf |->
            LET col == Column(rows, j)
                dev == [k \in 1..Len(col) |->
                          LET d == RSub(col[k], m[j]) IN RMul(d, d)]
            IN  RDiv(RSum(dev), RInt(Len(rows)))])

\* np.float(np.sum(y==yi))/np.size(y), line 61
ClassPrior(y, yi) == RDiv(RInt(Cardinality(Mask(y, yi))), RInt(Len(y)))

\* lines 62-65: the four attributes are assigned from the locals
StoreMerged(self, uniy, theta, sigma, proba_y) ==
    [attrs |-> AttrNames,
     uniy |-> SortedSeq(Range(self.uniy) \cup Range(uniy)),
     theta |-> theta, sigma |-> sigma, proba_y |-> proba_y]
Store(self, uniy, theta, sigma, proba_y) ==
    [attrs |-> AttrNames, uniy |-> uniy, theta |-> theta, sigma |-> sigma,
     proba_y |-> proba_y]

\* the state a fit leaves behind when line 59 raises inside the loop
RaisedEarlyDirty(self, uniy) == [self EXCEPT !.attrs = @ \cup {"uniy"}, !.uniy = uniy]
RaisedEarly(self, uniy) == self

\* fit(self, X, y): [raised, self, ret]
fit(self, X, y, strictMask) ==
    LET uniy == unique(y)
        C == Len(uniy)
        raises == \E i \in 1..C : MaskRaises(X, y, uniy[i], strictMask)
        theta == Vec([i \in 1..C |-> mean(X.nf, Select(X, y, uniy[i]))])
        sigma == Vec([i \in 1..C |-> var(X.nf, Select(X, y, uniy[i]))])
        proba_y == Vec([i \in 1..C |-> ClassPrior(y, uniy[i])])
    IN  IF raises
        THEN [raised |-> "IndexError", self |-> RaisedEarly(self, uniy), ret |-> "none"]
        ELSE [raised |-> "none", self |-> Store(self, uniy, theta, sigma, proba_y),
              ret |-> "self"]

(***************************************************************************)
(* Floating-point values of predict_proba.  A finite value is a fixed-point *)
(* integer counting 1/Scale; inf and nan are the IEEE specials.            *)
(***************************************************************************)
Scale == 10000
Ln2 == 6931
LnPi == 11447
\* np.exp(z) is inf for z > 709.7827 and 0 for z < -745.1332 (IEEE double)
LogMaxDouble == 7097827
LogMinDouble == 7451332

Fin(v) == [k |-> "fin", v |-> v]
Inf == [k |-> "inf", v |-> 0]
NaN == [k |-> "nan", v |-> 0]

FlAdd(a, b) ==
    IF a.k = "nan" \/ b.k = "nan" THEN NaN
    ELSE IF a.k = "inf" \/ b.k = "inf" THEN Inf
    ELSE Fin(a.v + b.v)

RECURSIVE FlSum(_)
FlSum(s) == IF s = <<>> THEN Fin(0) ELSE FlAdd(s[1], FlSum(Tail(s)))

\* a rational as a fixed-point number, rounded down
ToFx(r) == (r[1] \div r[2]) * Scale + ((r[1] % r[2]) * Scale) \div r[2]

RECURSIVE Pow2(_)
Pow2(k) == IF k = 0 THEN 1 ELSE 2 * Pow2(k - 1)

RECURSIVE Log2Floor(_)
Log2Floor(n) == IF n < 2 THEN 0 ELSE 1 + Log2Floor(n \div 2)

\* ln of an integer n >= 1: n = 2^k * y with 1 <= y < 2, ln y = 2 atanh((y-1)/(y+1))
LnInt(n) ==
    LET k == Log2Floor(n)
        p == Pow2(k)
        z == ((n - p) * Scale) \div (n + p)
        z2 == (z * z) \div Scale
        z3 == (z * z2) \div Scale
        z5 == (z3 * z2) \div Scale
        z7 == (z5 * z2) \div Scale
        z9 == (z7 * z2) \div Scale
    IN  k * Ln2 + 2 * (z + z3 \div 3 + z5 \div 5 + z7 \div 7 + z9 \div 9)

\* np.log of a rational r >= 0: log(0) = -inf is handled by the callers
FxLog(r) == LnInt(r[1]) - LnInt(r[2])

\* e^r for 0 <= r < Ln2, by its Taylor series
ExpSmall(r) ==
    LET t1 == r
        t2 == (t1 * r) \div (2 * Scale)
        t3 == (t2 * r) \div (3 * Scale)
        t4 == (t3 * r) \div (4 * Scale)
        t5 == (t4 * r) \div (5 * Scale)
        t6 == (t5 * r) \div (6 * Scale)
    IN  Scale + t1 + t2 + t3 + t4 + t5 + t6

\* e^d for d <= 0: d = r - k*Ln2 with 0 <= r < Ln2
FxExp(d) ==
    LET k == ((-d) + Ln2 - 1) \div Ln2
        r == d + k * Ln2
    IN  IF k > 30 THEN 0 ELSE ExpSmall(r) \div Pow2(k)

(***************************************************************************)
(* predict_proba, lines 74-86.                                             *)
(***************************************************************************)
\* numpy broadcasting of an (m, f) matrix against a row of F entries
Broadcastable(f, F) == f = F \/ f = 1 \/ F = 1

Width(f, F) == IF f >= F THEN f ELSE F

Pick(v, j) == IF Len(v) = 1 THEN v[1] ELSE v[j]

\* np.sum((X - self.theta[i,:])**2, 1) for one row x, line 80
QuadraticPlain(x, theta_i) ==
    RSum([j \in 1..Width(Len(x), Len(theta_i)) |-> RSub(Pick(x, j), Pick(theta_i, j))])
Quadratic(x, theta_i) ==
    RSum([j \in 1..Width(Len(x), Len(theta_i)) |->
            LET d == RSub(Pick(x, j), Pick(theta_i, j)) IN RMul(d, d)])

\* -0.5*np.log(np.pi*sigma[i,j]), line 78: log(0) = -inf gives +inf
NormEntry(v) ==
    IF v[1] = 0 THEN Inf ELSE Fin((-(LnPi + FxLog(v))) \div 2)

\* np.sum(-0.5*np.log(np.pi*self.sigma[i,:])), line 78
NormTerm(sigma_i) == FlSum([j \in 1..Len(sigma_i) |-> NormEntry(sigma_i[j])])

\* np.sum(2*self.sigma[i,:]), line 81
Correction(sigma_i) ==
    RSum([j \in 1..Len(sigma_i) |-> RMul(RInt(2), sigma_i[j])])

\* jointi + n_ij for class i and row x, lines 77-82
JointLogLikelihood(self, i, x) ==
    LET jointi == Fin(FxLog(self.proba_y[i]))
        n0 == NormTerm(self.sigma[i])
        n1 == FlAdd(n0, Fin(-ToFx(Quadratic(x, self.theta[i]))))
        n2 == FlAdd(n1, Fin(ToFx(Correction(self.sigma[i]))))
    IN  FlAdd(jointi, n2)

\* one row of joint_log_likelihood after the transpose of line 83
JllRow(self, x) ==
    Vec([i \in 1..Len(self.uniy) |-> JointLogLikelihood(self, i, x)])

\* np.exp of a log-likelihood: "zero", "pos" or "inf"
ExpKind(z) ==
    IF z.k = "inf" THEN "inf"
    ELSE IF z.v > LogMaxDouble THEN "inf"
    ELSE IF z.v < -LogMinDouble THEN "zero"
    ELSE "pos"

MaxOf(S) == CHOOSE m \in S : \A o \in S : o <= m

RECURSIVE IntSum(_)
IntSum(s) == IF s = <<>> THEN 0 ELSE s[1] + IntSum(Tail(s))

\* The doubles exp(z[i]) of one row are held as mantissas relative to the largest
\* finite one, line 84
Mantissas(z) ==
    LET C == Len(z)
        zmax == MaxOf({z[i].v : i \in {n \in 1..C : ExpKind(z[n]) = "pos"}})
    IN  Vec([i \in 1..C |->
                IF ExpKind(z[i]) = "pos" THEN FxExp(z[i].v - zmax) ELSE 0])

\* np.sum(proba,1) for one row, line 85: the divisor of the mantissas
RowDivisorMax(mant) == MaxOf(Range(mant))
RowDivisor(mant) == IntSum(mant)

\* np.sum(proba,1) for one row, line 85: "inf", "zero" or "pos"
RowSumKind(z) ==
    LET C == Len(z)
    IN  IF \E i \in 1..C : ExpKind(z[i]) = "inf" THEN "inf"
        ELSE IF \A i \in 1..C : ExpKind(z[i]) = "zero" THEN "zero"
        ELSE LET zmax == MaxOf({z[i].v : i \in {n \in 1..C : ExpKind(z[n]) = "pos"}})
             IN  IF zmax + LnInt(IntSum(Mantissas(z))) - LnInt(Scale) > LogMaxDouble
                 THEN "inf" ELSE "pos"

\* proba/np.sum(proba,1)[:,np.newaxis] for one row of log-likelihoods, lines 84-85
NormalizeRow(z) ==
    LET C == Len(z)
        sum == RowSumKind(z)
    IN  IF sum = "inf"
        THEN \* inf/inf = nan, finite/inf = 0
             [i \in 1..C |-> IF ExpKind(z[i]) = "inf" THEN NaN ELSE Fin(0)]
        ELSE IF sum = "zero"
        THEN \* 0/0 = nan
             [i \in 1..C |-> NaN]
        ELSE LET mant == Mantissas(z)
                 total == RowDivisor(mant)
             IN  [i \in 1..C |-> Fin((2 * mant[i] * Scale + total) \div (2 * total))]

\* self.uniy, lines 70 and 76: an attribute that was never assigned raises
HasAttrLoose(self, name) == TRUE
HasAttr(self, name) == name \in self.attrs

\* predict_proba(self, X): [raised, proba]
predict_proba(self, X) ==
    IF ~HasAttr(self, "uniy")
    THEN [raised |-> "AttributeError", proba |-> <<>>]
    ELSE LET C == Len(self.uniy)
         IN  IF C = 0
             THEN \* np.sum(proba,1) of the 1-d empty array, line 85
                  [raised |-> "ValueError", proba |-> <<>>]
             ELSE IF ~Broadcastable(X.nf, Len(self.theta[1]))
             THEN \* X - self.theta[i,:] cannot be broadcast, line 80
                  [raised |-> "ValueError", proba |-> <<>>]
             ELSE [raised |-> "none",
                   proba |-> [k \in 1..NRows(X) |->
                       NormalizeRow(JllRow(self, X.rows[k]))]]

(***************************************************************************)
(* predict, lines 69-71.                                                   *)
(***************************************************************************)
\* numpy's order on a row: nan counts as the maximum (np.max propagates nan)
FlGeq(a, b) == a.k = "nan" \/ (b.k # "nan" /\ a.v >= b.v)

\* np.argmax of one row: the first index holding the maximum
argmaxLast(row) ==
    CHOOSE i \in 1..Len(row) :
        /\ \A j \in 1..Len(row) : FlGeq(row[i], row[j])
        /\ \A j \in (i + 1)..Len(row) : ~FlGeq(row[j], row[i])
argmax(row) ==
    CHOOSE i \in 1..Len(row) :
        /\ \A j \in 1..Len(row) : FlGeq(row[i], row[j])
        /\ \A j \in 1..(i - 1) : ~FlGeq(row[j], row[i])

\* self.uniy[...] : the label at an index
TakeIndex(uniy, i) == i
Take(uniy, i) == uniy[i]

\* predict(self, X): [raised, labels]
predict(self, X) ==
    IF ~HasAttr(self, "uniy")
    THEN [raised |-> "AttributeError", labels |-> <<>>]
    ELSE LET p == predict_proba(self, X)
         IN  IF p.raised # "none"
             THEN [raised |-> p.raised, labels |-> <<>>]
             ELSE [raised |-> "none",
                   labels |-> [k \in 1..Len(p.proba) |->
                                  Take(self.uniy, argmax(p.proba[k]))]]

(***************************************************************************)
(* Inputs.                                                                 *)
(***************************************************************************)
TrainValues == {0, 1}
TrainLabels == {2, 5}
QueryValues == {0, 30}
QueryFeatureCounts == {1, 2}

IntRow(r) == Vec([j \in 1..Len(r) |-> RInt(r[j])])
IntRows(rs) == Vec([k \in 1..Len(rs) |-> IntRow(rs[k])])

Front(s) == SubSeq(s, 1, Len(s) - 1)

\* one-feature training sets of up to MaxSamples labelled rows
TrainingData == SeqsUpTo(TrainValues \X TrainLabels, MaxSamples)
DataX(d) == Matrix(1, Vec([k \in 1..Len(d) |-> <<RInt(d[k][1])>>]))
DataY(d) == Vec([k \in 1..Len(d) |-> d[k][2]])
GeneratedTraining == {[X |-> DataX(d), y |-> DataY(d)] : d \in TrainingData}

\* the example of the class docstring, lines 40-41
DoctestTraining ==
    [X |-> Matrix(2, IntRows(<<(<<-1, -1>>), <<-2, -1>>, <<-3, -2>>,
                               <<1, 1>>, <<2, 1>>, <<3, 2>> >>)),
     y |-> <<1, 1, 1, 2, 2, 2>>]

\* two classes of different size and spread
UnevenTraining ==
    [X |-> Matrix(1, IntRows(<<(<<0>>), <<1>>, <<3>>, <<5>>, <<6>> >>)),
     y |-> <<2, 2, 5, 5, 5>>]

\* a class of one sample next to a class of two
LoneSampleTraining ==
    [X |-> Matrix(1, IntRows(<<(<<0>>), <<1>>, <<3>> >>)), y |-> <<2, 5, 5>>]

\* one class with a large variance
WideTraining ==
    [X |-> Matrix(1, IntRows(<<(<<0>>), <<44>> >>)), y |-> <<5, 5>>]

\* two classes of one sample each
TwoPointTraining ==
    [X |-> Matrix(1, IntRows(<<(<<0>>), <<1>> >>)), y |-> <<2, 5>>]

\* a single training row
SingleRowTraining == [X |-> Matrix(1, IntRows(<< <<1>> >>)), y |-> <<5>>]

\* no training row at all
EmptyTraining == [X |-> Matrix(1, <<>>), y |-> <<>>]

NamedTraining ==
    {DoctestTraining, UnevenTraining, LoneSampleTraining, TwoPointTraining,
     WideTraining, SingleRowTraining, EmptyTraining}

\* training sets whose X and y differ in length: the last row of X or the last
\* label of y is missing
MismatchedTraining ==
    UNION {{[X |-> Matrix(t.X.nf, Front(t.X.rows)), y |-> t.y],
            [X |-> t.X, y |-> Front(t.y)]} :
              t \in {DoctestTraining, LoneSampleTraining}}

TrainingInputs == GeneratedTraining \cup NamedTraining \cup MismatchedTraining

\* clf.predict([[-0.8, -1]]), line 45
DoctestQuery == Matrix(2, << <<Rat(-4, 5), RInt(-1)>> >>)

PairQuery == Matrix(2, << <<RInt(1), RInt(1)>>, <<Rat(-4, 5), RInt(-1)>> >>)

WideQuery == Matrix(3, << <<RInt(0), RInt(0), RInt(0)>> >>)

QueryRows(nf) == {IntRow(r) : r \in [1..nf -> QueryValues]}

GeneratedQueries ==
    UNION {{Matrix(nf, rows) : rows \in SeqsUpTo(QueryRows(nf), MaxRows)} :
              nf \in QueryFeatureCounts}

QueryInputs == GeneratedQueries \cup {DoctestQuery, PairQuery, WideQuery}

ProbeQueries == {DoctestQuery, Matrix(1, << <<RInt(0)>> >>)}

(***************************************************************************)
(* The estimator object and the last call made on it.                      *)
(***************************************************************************)
NoMatrix == Matrix(0, <<>>)

\* had: the attributes the object held when the call was made
Call(op, had, X, y, strictMask, raised, ret, labels, proba) ==
    [op |-> op, had |-> had, X |-> X, y |-> y, strictMask |-> strictMask,
     raised |-> raised, ret |-> ret, labels |-> labels, proba |-> proba]

Init ==
    /\ clf = NewGNB
    /\ call = Call("new", {}, NoMatrix, <<>>, TRUE, "none", "none", <<>>, <<>>)

\* clf.fit(X, y)
FitOn(inputs) ==
    \E in \in inputs :
      \E strictMask \in (IF Len(in.y) = NRows(in.X) THEN {TRUE} ELSE BOOLEAN) :
        LET r == fit(clf, in.X, in.y, strictMask)
        IN  /\ clf' = r.self
            /\ call' = Call("fit", clf.attrs, in.X, in.y, strictMask, r.raised, r.ret, <<>>, <<>>)

\* clf.predict(X)
PredictOn(queries) ==
    \E X \in queries :
        LET r == predict(clf, X)
        IN  /\ call' = Call("predict", clf.attrs, X, <<>>, TRUE, r.raised, "none", r.labels, <<>>)
            /\ UNCHANGED clf

\* clf.predict_proba(X)
PredictProbaOn(queries) ==
    \E X \in queries :
        LET r == predict_proba(clf, X)
        IN  /\ call' = Call("predict_proba", clf.attrs, X, <<>>, TRUE, r.raised, "none", <<>>, r.proba)
            /\ UNCHANGED clf

(***************************************************************************)
(* SpecTrain: every training input, a few queries.                         *)
(***************************************************************************)
Fit == FitOn(TrainingInputs)
Probe == PredictOn(ProbeQueries)
ProbeProba == PredictProbaOn(ProbeQueries)

NextTrain == Fit \/ Probe \/ ProbeProba

SpecTrain == Init /\ [][NextTrain]_vars

(***************************************************************************)
(* SpecQuery: the named training inputs, every query.                      *)
(***************************************************************************)
FitNamed == FitOn(NamedTraining)
Predict == PredictOn(QueryInputs)
PredictProba == PredictProbaOn(QueryInputs)

NextQuery == FitNamed \/ Predict \/ PredictProba

SpecQuery == Init /\ [][NextQuery]_vars

(***************************************************************************)
(* Properties.                                                             *)
(***************************************************************************)
IsPredictCall == call.op \in {"predict", "predict_proba"}

\* the estimator held all four attributes when the call was made
WasFitted == call.had = AttrNames

\* the number of columns of the training matrix
FeatureCount(self) == Len(self.theta[1])

\* an order on probabilities in which nan is the largest value, as in np.max
AtLeast(a, b) == a.k = "nan" \/ (b.k # "nan" /\ a.v >= b.v)

\* the sum over the features of the squared deviation of a row from a mean vector
SqDeviation(x, m) ==
    RSum([j \in 1..Len(x) |-> RMul(RSub(x[j], m[j]), RSub(x[j], m[j]))])

\* every per-class, per-feature variance is non-zero
NonDegenerate(self) ==
    /\ Len(self.uniy) >= 1
    /\ \A i \in 1..Len(self.sigma) : \A j \in 1..Len(self.sigma[i]) :
          self.sigma[i][j][1] # 0

\* a row of C non-negative values that sum to 1.0 within the rounding of C divisions
RowStochastic(row, C) ==
    /\ Len(row) = C
    /\ \A i \in 1..C : row[i].k = "fin" /\ row[i].v >= 0
    /\ Abs(IntSum([i \in 1..C |-> row[i].v]) - Scale) <= C

\* C1: predict and predict_proba on an estimator that was never fitted raise
\* (AttributeError on self.uniy), return nothing and leave the estimator
\* without any fitted attribute, for every X.
C1_UnfittedCallRaises ==
    (IsPredictCall /\ call.had = {}) =>
        /\ call.raised = "AttributeError"
        /\ call.labels = <<>> /\ call.proba = <<>>
        /\ clf = NewGNB

C1_Witness ==
    /\ call.op = "predict_proba" /\ call.had = {} /\ NRows(call.X) = 1
    /\ call.raised = "AttributeError"

\* C2: a successful predict(X) has one label per row of X, in row order, and the
\* label of row k is classes[i] for the lowest index i at which row k of
\* predict_proba(X) takes its maximum.
C2_PredictIsFirstArgmax ==
    (call.op = "predict" /\ call.raised = "none") =>
        LET p == predict_proba(clf, call.X)
        IN  /\ p.raised = "none"
            /\ Len(call.labels) = NRows(call.X)
            /\ \A k \in 1..NRows(call.X) :
                 \E i \in 1..Len(clf.uniy) :
                    /\ call.labels[k] = clf.uniy[i]
                    /\ \A j \in 1..Len(clf.uniy) : AtLeast(p.proba[k][i], p.proba[k][j])
                    /\ \A j \in 1..(i - 1) : ~AtLeast(p.proba[k][j], p.proba[k][i])

C2_Witness ==
    /\ call.op = "predict" /\ call.raised = "none"
    /\ call.X = PairQuery /\ call.labels = <<2, 1>>

\* C3: after a successful fit, class_prior[i] is the number of labels equal to
\* classes[i] divided by n_samples, every class_prior value is > 0 and the
\* values sum to 1.
C3_ClassPriorIsFraction ==
    (call.op = "fit" /\ call.raised = "none") =>
        /\ RSum(clf.proba_y) = RInt(1)
        /\ \A i \in 1..Len(clf.uniy) :
              /\ clf.proba_y[i] =
                    Rat(Cardinality(Mask(call.y, clf.uniy[i])), NRows(call.X))
              /\ clf.proba_y[i][1] > 0

\* the case of C4: predict_proba on a fitted estimator with non-zero variances
\* and an X of the training feature count
C4_Case ==
    /\ call.op = "predict_proba" /\ WasFitted
    /\ NonDegenerate(clf)
    /\ call.X.nf = FeatureCount(clf)

C5_Doctest ==
    /\ call.op = "predict"
    /\ clf = fit(NewGNB, DoctestTraining.X, DoctestTraining.y, TRUE).self
    /\ call.X = DoctestQuery

\* the general case of C5: two classes with equal priors and equal variances
C5_Case ==
    /\ call.op = "predict" /\ WasFitted
    /\ Len(clf.uniy) = 2
    /\ clf.proba_y[1] = clf.proba_y[2]
    /\ clf.sigma[1] = clf.sigma[2]
    /\ call.X.nf = FeatureCount(clf)

\* row k is strictly nearer to the mean of class a than to the mean of class b
C5_Nearer(k, a, b) ==
    RLess(SqDeviation(call.X.rows[k], clf.theta[a]),
          SqDeviation(call.X.rows[k], clf.theta[b]))

\* C5 as claimed: the doctest predicts [1], and with equal priors and equal
\* variances every sample is assigned to the class whose mean has the smaller
\* sum of squared deviations from it.
C5_NearestMeanWins ==
    /\ C5_Doctest => call.raised = "none" /\ call.labels = <<1>>
    /\ C5_Case =>
          /\ call.raised = "none"
          /\ \A k \in 1..NRows(call.X) : \A a, b \in 1..2 :
                C5_Nearer(k, a, b) => call.labels[k] = clf.uniy[a]

\* C5 as amended: the doctest predicts [1], and with equal priors and equal
\* variances every sample whose likelihoods have a finite, non-zero sum is
\* assigned to the class whose mean has the smaller sum of squared deviations.
C5_NearestMeanWinsIfRegular ==
    /\ C5_Doctest => call.raised = "none" /\ call.labels = <<1>>
    /\ C5_Case =>
          /\ call.raised = "none"
          /\ \A k \in 1..NRows(call.X) : \A a, b \in 1..2 :
                (/\ RowSumKind(JllRow(clf, call.X.rows[k])) = "pos"
                 /\ C5_Nearer(k, a, b)) => call.labels[k] = clf.uniy[a]

C5_Witness == C5_Doctest /\ call.labels = <<1>>

\* C6: after a successful fit the four attributes are exactly those a fit of the
\* same (X, y) on a new estimator produces, whatever was fitted before, the
\* classes are the distinct labels of y, and fit returns the estimator.
C6_FitStartsAfresh ==
    (call.op = "fit" /\ call.raised = "none") =>
        /\ clf = fit(NewGNB, call.X, call.y, call.strictMask).self
        /\ Range(clf.uniy) = Range(call.y)
        /\ call.ret = "self"

C6_Witness ==
    /\ call.op = "fit" /\ call.raised = "none" /\ WasFitted
    /\ clf.uniy = <<5>>

\* C7: a fit whose y holds one distinct label gives class_prior = [1.0], and
\* predict on the one-class estimator returns that label for every row of X,
\* also when the class has a zero variance.
C7_SingleClass ==
    /\ (call.op = "fit" /\ call.raised = "none" /\ Cardinality(Range(call.y)) = 1) =>
          clf.proba_y = <<RInt(1)>> /\ clf.uniy = <<call.y[1]>>
    /\ (call.op = "predict" /\ WasFitted /\ Len(clf.uniy) = 1) =>
          /\ call.X.nf = FeatureCount(clf) => call.raised = "none"
          /\ call.raised = "none" =>
                /\ Len(call.labels) = NRows(call.X)
                /\ \A k \in 1..NRows(call.X) : call.labels[k] = clf.uniy[1]

C7_Witness ==
    /\ call.op = "predict" /\ call.raised = "none"
    /\ clf.uniy = <<5>> /\ clf.sigma = << <<RInt(0)>> >>
    /\ call.X.rows = << <<RInt(30)>> >> /\ call.labels = <<5>>

\* C8: predict and predict_proba with an X whose feature count differs from the
\* training feature count raise and never return a result.
C8_FeatureMismatchRaises ==
    (/\ IsPredictCall /\ WasFitted /\ Len(clf.uniy) >= 1
     /\ call.X.nf # FeatureCount(clf)) => call.raised # "none"

\* C9: fit with no training row, or with a y whose length differs from the rows
\* of X, raises and installs no fitted state.
C9_InvalidFitRaises ==
    (call.op = "fit" /\ (NRows(call.X) = 0 \/ Len(call.y) # NRows(call.X))) =>
        call.raised # "none" /\ clf.attrs = call.had

\* C10: predict, predict_proba and a fit that raises leave the four attributes
\* as they were; only a fit that completes changes them, and it sets all four.
C10_NoPartialUpdate ==
    [][/\ call'.op \in {"predict", "predict_proba"} => clf' = clf
       /\ (call'.op = "fit" /\ call'.raised # "none") => clf' = clf
       /\ (call'.op = "fit" /\ call'.raised = "none") =>
             /\ clf'.attrs = AttrNames
             /\ Len(clf'.theta) = Len(clf'.uniy)
             /\ Len(clf'.sigma) = Len(clf'.uniy)
             /\ Len(clf'.proba_y) = Len(clf'.uniy)
       /\ clf' # clf => (call'.op = "fit" /\ call'.raised = "none")]_vars

C10_Witness ==
    /\ call.op = "fit" /\ call.raised = "IndexError"
    /\ WasFitted /\ clf.attrs = AttrNames

====
